---- MODULE Spec2Model ----
(***************************************************************************)
(* Track My Bus (src/script.js): the Track button handler startTracking,   *)
(* the per-segment OSRM fetch fetchRoadForStops, the timer-driven marker   *)
(* animation animateAlongRoad/step, the timeline DOM (createTimeline),     *)
(* clearActiveVisuals and populateUI.                                      *)
(*                                                                         *)
(* Coordinates are pairs <<lat, lng>> in units of 1e-4 degree (31.6200 is  *)
(* 316200).  Strings of the DOM are TLA+ strings.  A JS object used as a   *)
(* map (activePolylines, ...) is a function whose DOMAIN is its key set.   *)
(***************************************************************************)
EXTENDS Integers, Sequences, FiniteSets, TLC

VARIABLES
    osrmUp,            \* the OSRM service answers the requests of this run
    loaded,            \* DOMContentLoaded has run (initMap, populateUI, button wired)
    fromOptions,       \* <option> values of #fromSelect, in document order
    toOptions,         \* <option> values of #toSelect, in document order
    routesList,        \* text of the <li> route pills of #routesList
    mapView,           \* what the map view was last fitted to
    mapLayers,         \* layers currently added to the Leaflet map
    activePolylines,   \* idName -> polyline layer
    activeMarkers,     \* idName -> marker layer
    activeTimelines,   \* set of idName
    activeAnimations,  \* idName -> timer id of the last scheduled step
    timelineWrap,      \* children of #timeline-wrap, in document order
    timers,            \* pending setTimeout timers
    anims,             \* closures of animateAlongRoad that can still run or be seen
    invs,              \* startTracking invocations suspended at their await
    nclicks,           \* number of Track clicks handled so far
    tracked,           \* the last Track click that matched a route: its number and routes
    populates,         \* calls of populateUI since the last Track click
    alertMsg,          \* text shown by alert() in the last step, "" if none
    fn                 \* state of the stand-alone runs of the pure functions

vars == <<osrmUp, loaded, fromOptions, toOptions, routesList, mapView,
          mapLayers, activePolylines, activeMarkers, activeTimelines,
          activeAnimations, timelineWrap, timers, anims, invs, nclicks,
          tracked, populates, alertMsg, fn>>

(***************************************************************************)
(* Bounds of the model.                                                    *)
(***************************************************************************)
MaxClicks == 2      \* Track clicks in one run
MaxPopulate == 2    \* calls of populateUI before the first Track click
MaxFnStops == 3     \* longest stop list given to the stand-alone functions

(***************************************************************************)
(* Configuration and routes.                                               *)
(***************************************************************************)
Stop(n, lat, lng) == [name |-> n, coords |-> <<lat, lng>>]

\* Object.entries(ROUTES) enumerates in insertion order: a sequence.
ROUTES ==
    << [busName |-> "Bus 101", color |-> "#e74c3c",
        stops |-> << Stop("Golden Temple",   316200, 748765),
                     Stop("Hall Bazaar",     316270, 748750),
                     Stop("Ram Bagh",        316315, 748778),
                     Stop("Railway Station", 316340, 748790),
                     Stop("Bus Stand",       316360, 748808) >>],
       [busName |-> "Bus 202", color |-> "#2ecc71",
        stops |-> << Stop("Ranjit Avenue",   316510, 748545),
                     Stop("GNDU",            316415, 748255),
                     Stop("Lawrence Road",   316410, 748690),
                     Stop("Bus Stand",       316360, 748808) >>],
       [busName |-> "Bus 303", color |-> "#3498db",
        stops |-> << Stop("Golden Temple",   316200, 748765),
                     Stop("Hall Bazaar",     316270, 748750),
                     Stop("GNDU",            316415, 748255),
                     Stop("Ranjit Avenue",   316510, 748545) >>] >>

ARRIVAL_THRESHOLD_M == 120

(***************************************************************************)
(* Utilities.                                                              *)
(***************************************************************************)
Range(s) == {s[i] : i \in DOMAIN s}

Max(a, b) == IF a >= b THEN a ELSE b

Abs(x) == IF x < 0 THEN -x ELSE x

\* String(name).replace(/\s+/g, "_").replace(/[^\w\-]/g, ""), on the bus names
\* the program has (TLA+ strings have no characters to iterate over).
safeId(name) ==
    CASE name = "Bus 101" -> "Bus_101"
      [] name = "Bus 202" -> "Bus_202"
      [] name = "Bus 303" -> "Bus_303"
      [] OTHER -> name

\* floor(sqrt(n)) by bisection on [lo, hi]
RECURSIVE SqrtIn(_, _, _)
SqrtIn(n, lo, hi) ==
    IF lo >= hi THEN lo
    ELSE LET mid == (lo + hi + 1) \div 2
         IN IF mid * mid <= n THEN SqrtIn(n, mid, hi) ELSE SqrtIn(n, lo, mid - 1)

ISqrt(n) == SqrtIn(n, 0, 20000)

\* metres per 1e-4 degree, times 100: of latitude (R * pi / 180 * 1e-4), and of
\* longitude at the latitude of the routes (cos 31.63 deg = 0.8515)
CM_PER_LAT == 1112
CM_PER_LNG == 947

\* Haversine distance in whole metres.  Over the few kilometres of the routes
\* the great-circle distance is the planar one to within a metre.
distanceMeters(lat1, lon1, lat2, lon2) ==
    LET dy == (CM_PER_LAT * Abs(lat2 - lat1)) \div 100
        dx == (CM_PER_LNG * Abs(lon2 - lon1)) \div 100
    IN ISqrt(dy * dy + dx * dx)

\* Math.max(1, Math.round(d / 200))
EtaMinutes(d) == Max(1, (d + 100) \div 200)

arraysEqual(a, b) ==
    /\ Len(a) = Len(b)
    /\ \A i \in 1..Len(a) : a[i] = b[i]

(***************************************************************************)
(* OSRM routing per segment.                                               *)
(*                                                                         *)
(* The outcome of one request is a record [kind, geom]:                    *)
(*   "throw"    fetch() rejects (network error)                            *)
(*   "status"   res.ok is false                                            *)
(*   "json"     res.json() rejects                                         *)
(*   "noroutes" data.routes is missing or empty                            *)
(*   "nogeom"   data.routes[0].geometry is missing (a TypeError, caught)   *)
(*   "ok"       geom is data.routes[0].geometry.coordinates, [lng, lat]    *)
(*              pairs, possibly empty                                      *)
(***************************************************************************)
FailKinds == {"throw", "status", "json", "noroutes", "nogeom"}

Failure(kind) == [kind |-> kind, geom |-> <<>>]

Geometry(g) == [kind |-> "ok", geom |-> g]

\* c => [c[1], c[0]]
ToLatLng(c) == <<c[2], c[1]>>

\* a slip in the three branches: `from` is pushed whatever fullCoords holds
StraightLine_from(fullCoords, from, to) == fullCoords \o <<from, to>>

\* the three straight-line branches: lines 167-168, 172-173 and 177-178
StraightLine(fullCoords, from, to) ==
    (IF Len(fullCoords) = 0 THEN <<from>> ELSE fullCoords) \o <<to>>

\* one iteration of the for loop of fetchRoadForStops
FetchSegment(fullCoords, from, to, o) ==
    IF o.kind = "ok"
    THEN LET seg == [i \in 1..Len(o.geom) |-> ToLatLng(o.geom[i])]
         IN IF Len(seg) > 0
            THEN IF /\ Len(fullCoords) > 0
                    /\ arraysEqual(fullCoords[Len(fullCoords)], seg[1])
                 THEN fullCoords \o Tail(seg)
                 ELSE fullCoords \o seg
            ELSE StraightLine(fullCoords, from, to)
    ELSE StraightLine(fullCoords, from, to)

\* the loop over segments 1..n (segment i joins stops[i] and stops[i+1])
RECURSIVE FetchLoop(_, _, _)
FetchLoop(stops, outcomes, n) ==
    IF n = 0 THEN <<>>
    ELSE FetchSegment(FetchLoop(stops, outcomes, n - 1),
                      stops[n].coords, stops[n + 1].coords, outcomes[n])

\* lines 181-188: fill an empty result with the stops' coordinates
FillIfEmpty(fullCoords, stops) ==
    IF Len(fullCoords) = 0
    THEN [i \in 1..Len(stops) |-> stops[i].coords]
    ELSE fullCoords

\* a slip: the early returns of lines 141-142 and the fill of lines 181-188 are
\* missing, what the loop left is returned
FetchReturn_loop(stops, fullCoords) == fullCoords

\* what fetchRoadForStops returns when its loop, if it ran, left fullCoords
FetchReturn(stops, fullCoords) ==
    IF Len(stops) = 0 THEN <<>>
    ELSE IF Len(stops) = 1 THEN <<stops[1].coords>>
    ELSE FillIfEmpty(fullCoords, stops)

\* the value the promise of fetchRoadForStops resolves to, given the outcome of
\* each segment's request
fetchRoadForStops(stops, outcomes) ==
    FetchReturn(stops, IF Len(stops) >= 2
                       THEN FetchLoop(stops, outcomes, Len(stops) - 1) ELSE <<>>)

(***************************************************************************)
(* Timeline UI.                                                            *)
(***************************************************************************)
Eta(text, minutes) == [text |-> text, minutes |-> minutes]

NewPill(s) == [name |-> s.name, active |-> FALSE, eta |-> Eta("--", 0)]

\* the container div of one bus: its id is timeline-<idName>, pill i (from 0)
\* has id pill-<idName>-<i>.  inv records the invocation that created it.
NewContainer(inv, busName, stops) ==
    [idName |-> safeId(busName),
     title  |-> [busName |-> busName, count |-> Len(stops)],
     pills  |-> [i \in 1..Len(stops) |-> NewPill(stops[i])],
     inv    |-> inv]

\* a slip in line 100: the check of activeTimelines is missing
createTimeline_nocheck(wrap, timelines, inv, busName, stops) ==
    [wrap |-> Append(wrap, NewContainer(inv, busName, stops)),
     timelines |-> timelines \cup {safeId(busName)}]

\* createTimeline: the new [wrap, set] pair (#timeline-wrap is in the page)
createTimeline(wrap, timelines, inv, busName, stops) ==
    IF safeId(busName) \in timelines
    THEN [wrap |-> wrap, timelines |-> timelines]
    ELSE [wrap |-> Append(wrap, NewContainer(inv, busName, stops)),
          timelines |-> timelines \cup {safeId(busName)}]

\* document.getElementById(`pill-${idName}-${i}`): the position in the wrapper
\* of the first container holding that pill, 0 if there is none
FindPill(wrap, idName, i) ==
    LET hits == {c \in 1..Len(wrap) : wrap[c].idName = idName /\ i < Len(wrap[c].pills)}
    IN IF hits = {} THEN 0 ELSE CHOOSE c \in hits : \A d \in hits : c <= d

\* pill.classList.add("active"); etaDiv.textContent = "Arrived"
MarkArrived(wrap, c, i) ==
    [wrap EXCEPT ![c].pills[i + 1].active = TRUE,
                 ![c].pills[i + 1].eta = Eta("Arrived", 0)]

\* etaDiv.textContent = `${minutes} min`
ShowEta(wrap, c, i, d) ==
    [wrap EXCEPT ![c].pills[i + 1].eta = Eta("min", EtaMinutes(d))]

\* the alert for stop i: a notification if Notification.permission is "granted",
\* vibration if the browser has it, and the sound
Alert(i, stop) == [stop |-> i, name |-> stop.name]


(***************************************************************************)
(* Marker animation.                                                       *)
(*                                                                         *)
(* One closure of animateAlongRoad is a record: idx and nextStopIndex are  *)
(* its local variables (counted from 0 as in the code), latlng and popup   *)
(* the state of its marker, color and coords the polyline drawn with it.   *)
(* placed, alerts and startPills are history: every position the marker    *)
(* was set to, the alerts fired, and the container the first pill was      *)
(* found in when the animation started.                                    *)
(***************************************************************************)
NoContainer == [idName |-> "", title |-> [busName |-> "", count |-> 0],
                pills |-> <<>>, inv |-> 0]

Layer(kind, inv, idName) == [kind |-> kind, inv |-> inv, idName |-> idName]

TimerId(inv, idName, n) == [inv |-> inv, idName |-> idName, n |-> n]

\* lines 213-237: the closure's variables, and the first pill marked Arrived
\* with its alert when the pill is in the page
StartAnimation(inv, m, coords, wrap) ==
    LET idName == safeId(m.busName)
        c0 == IF Len(m.subStops) > 0 THEN FindPill(wrap, idName, 0) ELSE 0
    IN [a |-> [inv |-> inv, busName |-> m.busName, idName |-> idName,
               color |-> m.color, coords |-> coords, stops |-> m.subStops,
               idx |-> 0, nextStopIndex |-> 1,
               latlng |-> coords[1],
               popup |-> <<m.busName, m.subStops[1].name>>,
               placed |-> <<>>,
               alerts |-> IF c0 # 0 THEN <<Alert(0, m.subStops[1])>> ELSE <<>>,
               startPills |-> IF c0 # 0 THEN wrap[c0] ELSE NoContainer],
        wrap |-> IF c0 # 0 THEN MarkArrived(wrap, c0, 0) ELSE wrap]

\* a slip in lines 241-243: the previous timer of the bus is not cleared
PreviousTimer_none(animations, idName) == {}

\* lines 241-243: the timer recorded for the bus, which clearTimeout stops
PreviousTimer(animations, idName) ==
    IF idName \in DOMAIN animations THEN {animations[idName]} ELSE {}

\* a slip in line 304: the index advances by two
NextIdx_two(idx) == idx + 2

\* idx++
NextIdx(idx) == idx + 1

\* lines 252-304 of step(): the marker moves to coords[idx], the next unvisited
\* stop is marked or given an ETA when its pill is in the page, idx advances
StepBody(a, wrap) ==
    LET p == a.coords[a.idx + 1]
        moved == [a EXCEPT !.latlng = p,
                           !.popup = IF a.idx % 10 = 0
                                     THEN <<a.busName, "moving">> ELSE @,
                           !.placed = Append(@, p),
                           !.idx = NextIdx(@)]
    IN IF a.nextStopIndex < Len(a.stops)
       THEN LET stop == a.stops[a.nextStopIndex + 1]
                d == distanceMeters(p[1], p[2], stop.coords[1], stop.coords[2])
                c == FindPill(wrap, a.idName, a.nextStopIndex)
            IN IF c = 0 THEN [a |-> moved, wrap |-> wrap]
               ELSE IF d < ARRIVAL_THRESHOLD_M
               THEN [a |-> [moved EXCEPT
                              !.alerts = Append(@, Alert(a.nextStopIndex, stop)),
                              !.nextStopIndex = @ + 1],
                     wrap |-> MarkArrived(wrap, c, a.nextStopIndex)]
               ELSE [a |-> moved, wrap |-> ShowEta(wrap, c, a.nextStopIndex, d)]
       ELSE [a |-> moved, wrap |-> wrap]

\* the closures that can still be observed: a step timer of the closure is
\* pending, or it ran to its end and its marker is on the map.  A closure whose
\* pending timer was cleared (one of tids) is unreachable.
Live(as, ts, tids, layers) ==
    LET mine(k, t) == t.inv = as[k].inv /\ t.idName = as[k].idName
        keep == {k \in DOMAIN as :
                    /\ ~ \E t \in ts \cap tids : mine(k, t)
                    /\ \/ \E t \in ts \ tids : mine(k, t)
                       \/ Layer("marker", as[k].inv, as[k].idName) \in layers}
    IN [k \in keep |-> as[k]]

\* obj[key] = value
Put(obj, key, value) == (key :> value) @@ obj

\* delete obj[key]
Delete(obj, key) == [k \in DOMAIN obj \ {key} |-> obj[k]]

(***************************************************************************)
(* Direction filter of startTracking (lines 405-416).                      *)
(***************************************************************************)
\* names.indexOf(x) from position i on: the first position (from 0), -1 if none
RECURSIVE IndexFrom(_, _, _)
IndexFrom(names, x, i) ==
    IF i >= Len(names) THEN -1
    ELSE IF names[i + 1] = x THEN i
    ELSE IndexFrom(names, x, i + 1)

\* a slip in lines 409-410: lastIndexOf for indexOf
indexOf_last(names, x) ==
    LET hits == {i \in 0..(Len(names) - 1) : names[i + 1] = x}
    IN IF hits = {} THEN -1 ELSE CHOOSE i \in hits : \A j \in hits : j <= i

indexOf(names, x) == IndexFrom(names, x, 0)

\* arr.slice(lo, hi): positions lo .. hi-1, counted from 0
slice(arr, lo, hi) == SubSeq(arr, lo + 1, hi)

\* the routes before position n of `routes` that pass the filter, in order
RECURSIVE MatchLoop(_, _, _, _)
MatchLoop(routes, from, to, n) ==
    IF n = 0 THEN <<>>
    ELSE LET r == routes[n]
             names == [i \in 1..Len(r.stops) |-> r.stops[i].name]
             startIdx == indexOf(names, from)
             endIdx == indexOf(names, to)
             before == MatchLoop(routes, from, to, n - 1)
         IN IF startIdx # -1 /\ endIdx # -1 /\ startIdx < endIdx
            THEN Append(before, [busName |-> r.busName, color |-> r.color,
                                 subStops |-> slice(r.stops, startIdx, endIdx + 1)])
            ELSE before

MatchRoutes(routes, from, to) == MatchLoop(routes, from, to, Len(routes))

(***************************************************************************)
(* populateUI.                                                             *)
(***************************************************************************)
\* the UTF-16 code units of the stop names; Array.prototype.sort() without a
\* comparator orders strings by them
CodeUnits(s) ==
    CASE s = "Golden Temple" -> <<71, 111, 108, 100, 101, 110, 32, 84, 101, 109, 112, 108, 101>>
      [] s = "Hall Bazaar" -> <<72, 97, 108, 108, 32, 66, 97, 122, 97, 97, 114>>
      [] s = "Ram Bagh" -> <<82, 97, 109, 32, 66, 97, 103, 104>>
      [] s = "Railway Station" -> <<82, 97, 105, 108, 119, 97, 121, 32, 83, 116, 97, 116, 105, 111, 110>>
      [] s = "Bus Stand" -> <<66, 117, 115, 32, 83, 116, 97, 110, 100>>
      [] s = "Ranjit Avenue" -> <<82, 97, 110, 106, 105, 116, 32, 65, 118, 101, 110, 117, 101>>
      [] s = "GNDU" -> <<71, 78, 68, 85>>
      [] s = "Lawrence Road" -> <<76, 97, 119, 114, 101, 110, 99, 101, 32, 82, 111, 97, 100>>
      [] OTHER -> <<>>

\* a < b in the order of sort(): the first differing code unit decides, a
\* proper prefix comes first
RECURSIVE UnitsLess(_, _, _)
UnitsLess(a, b, i) ==
    IF i > Len(a) THEN i <= Len(b)
    ELSE IF i > Len(b) THEN FALSE
    ELSE IF a[i] # b[i] THEN a[i] < b[i]
    ELSE UnitsLess(a, b, i + 1)

StringLess(a, b) == UnitsLess(CodeUnits(a), CodeUnits(b), 1)

\* x put into the sorted sequence s
RECURSIVE InsertSorted(_, _)
InsertSorted(s, x) ==
    IF Len(s) = 0 THEN <<x>>
    ELSE IF StringLess(x, Head(s)) THEN <<x>> \o s
    ELSE <<Head(s)>> \o InsertSorted(Tail(s), x)

RECURSIVE sort(_)
sort(s) == IF Len(s) = 0 THEN <<>> ELSE InsertSorted(sort(Tail(s)), Head(s))

\* stopsSet.add(x): a Set keeps insertion order and no duplicates
SetAdd(s, x) == IF x \in Range(s) THEN s ELSE Append(s, x)

RECURSIVE AddStops(_, _, _)
AddStops(s, stops, n) ==
    IF n = 0 THEN s ELSE SetAdd(AddStops(s, stops, n - 1), stops[n].name)

\* Object.values(ROUTES).forEach(r => r.stops.forEach(s => stopsSet.add(s.name)))
RECURSIVE StopsSet(_, _)
StopsSet(routes, n) ==
    IF n = 0 THEN <<>>
    ELSE AddStops(StopsSet(routes, n - 1), routes[n].stops, Len(routes[n].stops))

Option(value, text) == [value |-> value, text |-> text]

Placeholder == Option("", "-- choose --")

RoutePill(r) ==
    [busName |-> r.busName, stops |-> [i \in 1..Len(r.stops) |-> r.stops[i].name]]

\* a slip in lines 341-342: the select is not emptied first
FillSelect_append(old, routes) ==
    LET sorted == sort(StopsSet(routes, Len(routes)))
    IN old \o <<Placeholder>> \o [i \in 1..Len(sorted) |-> Option(sorted[i], sorted[i])]

\* the options populateUI leaves in a select whose options were `old`
FillSelect(old, routes) ==
    LET sorted == sort(StopsSet(routes, Len(routes)))
    IN <<Placeholder>> \o [i \in 1..Len(sorted) |-> Option(sorted[i], sorted[i])]

\* the <li> pills populateUI leaves in #routesList whose items were `old`
FillRoutesList(old, routes) == [i \in 1..Len(routes) |-> RoutePill(routes[i])]

\* the stops the user of the model picks between
Picked == {"GNDU", "Golden Temple", "Hall Bazaar"}

\* the values the user picks from: the placeholder and the options of Picked
Pickable(options) ==
    {options[i].value : i \in {j \in 1..Len(options) : options[j].value \in Picked \cup {""}}}

(***************************************************************************)
(* The outcomes of the OSRM requests the model draws from.                 *)
(***************************************************************************)
\* OSRM snaps a coordinate to the nearest road: some metres off the stop
Snapped(c) == <<c[1] + 1, c[2] + 1>>

ToLngLat(c) == <<c[2], c[1]>>

\* geometries of the segment from -> to: none, through the stops themselves,
\* through the snapped points, and the mixed ones
RoadGeoms(from, to) ==
    { <<>>,
      <<ToLngLat(from), ToLngLat(to)>>,
      <<ToLngLat(Snapped(from)), ToLngLat(Snapped(to))>>,
      <<ToLngLat(from), ToLngLat(Snapped(to))>>,
      <<ToLngLat(Snapped(from)), ToLngLat(to)>> }

OsrmOutcomes(from, to) ==
    {Failure(k) : k \in FailKinds} \cup {Geometry(g) : g \in RoadGeoms(from, to)}

\* the outcomes of the requests of one fetchRoadForStops(stops) while tracking:
\* with OSRM down every request fails, with OSRM up every request is answered
\* with the road between the snapped points
TrackOutcomes(stops, up) ==
    [i \in 1..(Len(stops) - 1) |->
        IF up
        THEN Geometry(<<ToLngLat(Snapped(stops[i].coords)),
                        ToLngLat(Snapped(stops[i + 1].coords))>>)
        ELSE Failure("throw")]

(***************************************************************************)
(* The page.                                                               *)
(***************************************************************************)
FnIdle == [pc |-> "idle", stops |-> <<>>, from |-> "", to |-> "", matched |-> <<>>,
           i |-> 0, fullCoords |-> <<>>, failed |-> {}, result |-> <<>>]

\* the selects and the list as the HTML may ship them: empty, or with entries
\* left in the markup
ShippedOptions == {<<>>, <<Placeholder, Option("Bus Stand", "Bus Stand")>>}

Init ==
    /\ osrmUp \in BOOLEAN
    /\ loaded = FALSE
    /\ fromOptions \in ShippedOptions
    /\ toOptions = fromOptions
    /\ routesList = IF fromOptions = <<>> THEN <<>> ELSE <<RoutePill(ROUTES[1])>>
    /\ mapView = <<>>
    /\ mapLayers = {}
    /\ activePolylines = <<>>
    /\ activeMarkers = <<>>
    /\ activeTimelines = {}
    /\ activeAnimations = <<>>
    /\ timelineWrap = <<>>
    /\ timers = {}
    /\ anims = <<>>
    /\ invs = <<>>
    /\ nclicks = 0
    /\ tracked = [id |-> 0, matched |-> <<>>]
    /\ populates = 0
    /\ alertMsg = ""
    /\ fn = FnIdle

\* populateUI(): the three elements are in the page
populateUI ==
    /\ populates' = populates + 1
    /\ fromOptions' = FillSelect(fromOptions, ROUTES)
    /\ toOptions' = FillSelect(toOptions, ROUTES)
    /\ routesList' = FillRoutesList(routesList, ROUTES)

\* the first DOMContentLoaded listener: initMap(), populateUI(), the Track
\* button wired to startTracking
DOMContentLoaded ==
    /\ ~loaded
    /\ loaded' = TRUE
    /\ mapView' = <<"setView", <<316340, 748723>>, 13>>
    /\ populateUI
    /\ alertMsg' = ""
    /\ UNCHANGED <<osrmUp, mapLayers, activePolylines, activeMarkers,
                   activeTimelines, activeAnimations, timelineWrap, timers,
                   anims, invs, nclicks, tracked, fn>>

\* a further call of populateUI(), before the first Track click
PopulateAgain ==
    /\ loaded
    /\ nclicks = 0
    /\ populates < MaxPopulate
    /\ populateUI
    /\ alertMsg' = ""
    /\ UNCHANGED <<osrmUp, loaded, mapView, mapLayers, activePolylines,
                   activeMarkers, activeTimelines, activeAnimations, timelineWrap,
                   timers, anims, invs, nclicks, tracked, fn>>

\* clearActiveVisuals(): what it leaves of the map layers and of the timers
ClearedLayers == mapLayers \ (Range(activePolylines) \cup Range(activeMarkers))

ClearedTimers == timers \ Range(activeAnimations)

\* allCoords of line 427-428
AllCoords(matched) ==
    UNION {{matched[j].subStops[i].coords : i \in 1..Len(matched[j].subStops)}
           : j \in 1..Len(matched)}

\* a slip: clearActiveVisuals() of line 424 is called before the checks of
\* lines 400 and 418
Rejected_cleared(msg) ==
    /\ alertMsg' = msg
    /\ mapLayers' = ClearedLayers
    /\ timers' = ClearedTimers
    /\ anims' = Live(anims, timers, Range(activeAnimations), ClearedLayers)
    /\ activePolylines' = <<>>
    /\ activeMarkers' = <<>>
    /\ activeAnimations' = <<>>
    /\ timelineWrap' = <<>>
    /\ activeTimelines' = {}
    /\ UNCHANGED <<mapView, invs, tracked>>

\* lines 400-403 and 418-421: alert(msg); return
Rejected(msg) ==
    /\ alertMsg' = msg
    /\ UNCHANGED <<mapView, mapLayers, activePolylines, activeMarkers,
                   activeTimelines, activeAnimations, timelineWrap,
                   timers, anims, invs, tracked>>

\* startTracking() up to its first await, for the values `from` and `to` of the
\* two selects
Click(from, to) ==
    /\ loaded
    /\ nclicks < MaxClicks
    /\ from \in Pickable(fromOptions)
    /\ to \in Pickable(toOptions)
    /\ nclicks' = nclicks + 1
    /\ LET matched == MatchRoutes(ROUTES, from, to)
       IN IF from = "" \/ to = ""
          THEN Rejected("Please select both From and To stops.")
          ELSE IF Len(matched) = 0
          THEN Rejected("No buses found for that route inside Amritsar (demo). Try different pair.")
          ELSE LET id == nclicks + 1
                      tl == createTimeline(<<>>, {}, id, matched[1].busName,
                                           matched[1].subStops)
                  IN /\ mapLayers' = ClearedLayers
                     /\ timers' = ClearedTimers
                     /\ anims' = Live(anims, timers, Range(activeAnimations), ClearedLayers)
                     /\ activePolylines' = <<>>
                     /\ activeMarkers' = <<>>
                     /\ activeAnimations' = <<>>
                     /\ mapView' = <<"fitBounds", AllCoords(matched)>>
                     /\ timelineWrap' = tl.wrap
                     /\ activeTimelines' = tl.timelines
                     /\ invs' = Put(invs, id, [from |-> from, to |-> to,
                                               matched |-> matched, k |-> 1])
                     /\ tracked' = [id |-> id, matched |-> matched]
                     /\ alertMsg' = ""
    /\ populates' = 0
    /\ UNCHANGED <<osrmUp, loaded, fromOptions, toOptions, routesList, fn>>

\* startTracking() from the point where its fetchRoadForStops promise resolves
\* (the requests of the segments ended as `outcomes`) to its next await or its
\* end: polyline, marker, animateAlongRoad with its first step(), and the
\* createTimeline of the next matched route
FetchResolve(id, outcomes) ==
    /\ id \in DOMAIN invs
    /\ LET inv == invs[id]
           m == inv.matched[inv.k]
           idName == safeId(m.busName)
           fullCoords == fetchRoadForStops(m.subStops, outcomes)
           polyline == Layer("polyline", id, idName)
           marker == Layer("marker", id, idName)
           drawn == Len(fullCoords) > 0   \* L.marker(undefined) throws, caught at 456
           start == StartAnimation(id, m, fullCoords, timelineWrap)
           old == PreviousTimer(activeAnimations, idName)
           first == StepBody(start.a, start.wrap)
           timer == TimerId(id, idName, first.a.idx)
           wrap1 == IF drawn THEN first.wrap ELSE timelineWrap
           last == inv.k = Len(inv.matched)
           tl == IF last THEN [wrap |-> wrap1, timelines |-> activeTimelines]
                 ELSE createTimeline(wrap1, activeTimelines, id,
                                     inv.matched[inv.k + 1].busName,
                                     inv.matched[inv.k + 1].subStops)
           layers1 == mapLayers \cup (IF drawn THEN {polyline, marker} ELSE {polyline})
           timers1 == IF drawn THEN (timers \ old) \cup {timer} ELSE timers
       IN /\ mapLayers' = layers1
          /\ activePolylines' = Put(activePolylines, idName, polyline)
          /\ activeMarkers' = IF drawn THEN Put(activeMarkers, idName, marker)
                              ELSE activeMarkers
          /\ timers' = timers1
          /\ activeAnimations' = IF drawn THEN Put(activeAnimations, idName, timer)
                                 ELSE activeAnimations
          /\ anims' = IF drawn
                      THEN Put(Live(anims, timers, old, layers1), <<id, idName>>, first.a)
                      ELSE anims
          /\ timelineWrap' = tl.wrap
          /\ activeTimelines' = tl.timelines
          /\ invs' = IF last THEN Delete(invs, id)
                     ELSE Put(invs, id, [inv EXCEPT !.k = @ + 1])
    /\ alertMsg' = ""
    /\ UNCHANGED <<osrmUp, loaded, fromOptions, toOptions, routesList, mapView,
                   nclicks, tracked, populates, fn>>

\* the timer t fires: step() of its closure
TimerFire(t) ==
    /\ t \in timers
    /\ LET key == <<t.inv, t.idName>>
           a == anims[key]
           r == StepBody(a, timelineWrap)
           next == TimerId(t.inv, t.idName, r.a.idx)
       IN IF a.idx >= Len(a.coords)
          THEN /\ timers' = timers \ {t}
               /\ UNCHANGED <<timelineWrap, activeAnimations, anims>>
          ELSE /\ timers' = (timers \ {t}) \cup {next}
               /\ anims' = Put(anims, key, r.a)
               /\ timelineWrap' = r.wrap
               /\ activeAnimations' = Put(activeAnimations, t.idName, next)
    /\ alertMsg' = ""
    /\ UNCHANGED <<osrmUp, loaded, fromOptions, toOptions, routesList, mapView,
                   mapLayers, activePolylines, activeMarkers, activeTimelines,
                   invs, nclicks, tracked, populates, fn>>

Next ==
    \/ DOMContentLoaded
    \/ PopulateAgain
    \/ \E from \in Pickable(fromOptions), to \in Pickable(toOptions) : Click(from, to)
    \/ \E id \in DOMAIN invs :
          FetchResolve(id, TrackOutcomes(invs[id].matched[invs[id].k].subStops, osrmUp))
    \/ \E t \in timers : TimerFire(t)

Spec == Init /\ [][Next]_vars

(***************************************************************************)
(* Stand-alone runs of the direction filter and of fetchRoadForStops, on   *)
(* stop lists the tracking runs do not produce (empty, one stop, a stop    *)
(* that occurs twice) and with every outcome of the requests.              *)
(***************************************************************************)
FnStopSet == {ROUTES[1].stops[i] : i \in 1..3}

FnNames == {s.name : s \in FnStopSet} \cup {""}

\* the sequences over S of length 0..n
RECURSIVE SeqsUpTo(_, _)
SeqsUpTo(S, n) ==
    IF n = 0 THEN {<<>>}
    ELSE LET shorter == SeqsUpTo(S, n - 1)
         IN shorter \cup {Append(q, x) : q \in shorter, x \in S}

FnStopLists == SeqsUpTo(FnStopSet, MaxFnStops)

Reverse(q) == [i \in 1..Len(q) |-> q[Len(q) + 1 - i]]

\* the two-route table the filter is run on: a route through `stops` and the
\* route back
FnRoutes(stops) ==
    << [busName |-> "Bus 101", color |-> "#e74c3c", stops |-> stops],
       [busName |-> "Bus 202", color |-> "#2ecc71", stops |-> Reverse(stops)] >>

FnInit ==
    /\ osrmUp = FALSE
    /\ loaded = FALSE
    /\ fromOptions = <<>>
    /\ toOptions = <<>>
    /\ routesList = <<>>
    /\ mapView = <<>>
    /\ mapLayers = {}
    /\ activePolylines = <<>>
    /\ activeMarkers = <<>>
    /\ activeTimelines = {}
    /\ activeAnimations = <<>>
    /\ timelineWrap = <<>>
    /\ timers = {}
    /\ anims = <<>>
    /\ invs = <<>>
    /\ nclicks = 0
    /\ tracked = [id |-> 0, matched |-> <<>>]
    /\ populates = 0
    /\ alertMsg = ""
    /\ \E stops \in FnStopLists :
          \/ \E from \in FnNames, to \in FnNames :
                fn = [FnIdle EXCEPT !.pc = "match", !.stops = stops,
                                    !.from = from, !.to = to]
          \/ fn = [FnIdle EXCEPT !.pc = "fetch", !.stops = stops]

FnFrame ==
    UNCHANGED <<osrmUp, loaded, fromOptions, toOptions, routesList, mapView,
                mapLayers, activePolylines, activeMarkers, activeTimelines,
                activeAnimations, timelineWrap, timers, anims, invs, nclicks,
                tracked, populates, alertMsg>>

\* lines 405-416 on the two-route table
FnMatch ==
    /\ fn.pc = "match"
    /\ fn' = [fn EXCEPT !.pc = "matched",
                        !.matched = MatchRoutes(FnRoutes(fn.stops), fn.from, fn.to)]
    /\ FnFrame

\* the request of segment fn.i + 1 ends as o: one iteration of the loop
FnFetchSegment(o) ==
    /\ fn.pc = "fetch"
    /\ Len(fn.stops) >= 2
    /\ fn.i < Len(fn.stops) - 1
    /\ LET from == fn.stops[fn.i + 1].coords
           to == fn.stops[fn.i + 2].coords
       IN /\ o \in OsrmOutcomes(from, to)
          /\ fn' = [fn EXCEPT
                      !.i = @ + 1,
                      !.fullCoords = FetchSegment(@, from, to, o),
                      !.failed = IF o.kind # "ok" \/ Len(o.geom) = 0
                                 THEN @ \cup {fn.i + 1} ELSE @]
    /\ FnFrame

\* fetchRoadForStops returns
FnFetchReturn ==
    /\ fn.pc = "fetch"
    /\ Len(fn.stops) < 2 \/ fn.i = Len(fn.stops) - 1
    /\ fn' = [fn EXCEPT !.pc = "returned",
                        !.result = FetchReturn(fn.stops, fn.fullCoords)]
    /\ FnFrame

FnNext ==
    \/ FnMatch
    \/ \E o \in UNION {OsrmOutcomes(a.coords, b.coords) : a \in FnStopSet, b \in FnStopSet} :
          FnFetchSegment(o)
    \/ FnFetchReturn

SpecFn == FnInit /\ [][FnNext]_vars

\* every request made settles (fetch() resolves or rejects, res.json() resolves
\* or rejects) and the continuation of the await runs
SpecFnLive == SpecFn /\ WF_vars(FnNext)

(***************************************************************************)
(* Properties.                                                             *)
(***************************************************************************)
BusIds == {safeId(ROUTES[i].busName) : i \in 1..Len(ROUTES)}

LayersOf(kind, idName) == {l \in mapLayers : l.kind = kind /\ l.idName = idName}

Containers == Range(timelineWrap)

Pending(a) == {t \in timers : t.inv = a.inv /\ t.idName = a.idName}

Names(stops) == [i \in 1..Len(stops) |-> stops[i].name]

\* C1: one marker per bus.  In every reachable state the map holds at most one
\* marker and at most one polyline for each bus, and it is the one recorded for
\* the bus in activeMarkers / activePolylines.
C1_OneMarkerPerBus ==
    \A b \in BusIds :
        /\ Cardinality(LayersOf("marker", b)) <= 1
        /\ Cardinality(LayersOf("polyline", b)) <= 1
        /\ \A l \in LayersOf("marker", b) :
              b \in DOMAIN activeMarkers /\ activeMarkers[b] = l
        /\ \A l \in LayersOf("polyline", b) :
              b \in DOMAIN activePolylines /\ activePolylines[b] = l

\* C2: previous visuals are cleared on re-render.  Every polyline, marker,
\* timeline and pending animation step on the page belongs to the most recent
\* Track click that matched a route; and once no startTracking invocation is in
\* flight, the buses with a marker, with a polyline and with a timeline are
\* exactly the routes that click matched.
C2_PreviousVisualsCleared ==
    LET shown == {safeId(tracked.matched[i].busName) : i \in 1..Len(tracked.matched)}
    IN /\ \A l \in mapLayers : l.inv = tracked.id
       /\ \A c \in Containers : c.inv = tracked.id
       /\ \A t \in timers : t.inv = tracked.id
       /\ invs = <<>> =>
             /\ {l.idName : l \in {x \in mapLayers : x.kind = "marker"}} = shown
             /\ {l.idName : l \in {x \in mapLayers : x.kind = "polyline"}} = shown
             /\ {c.idName : c \in Containers} = shown

\* the positions (from 1) of the first occurrence of x in names, as a set
FirstAt(names, x) ==
    {i \in 1..Len(names) : names[i] = x /\ \A j \in 1..(i - 1) : names[j] # x}

\* C3: direction filter.  With non-empty From and To a route is tracked if and
\* only if both names occur in its stop list and the first occurrence of From is
\* strictly before the first occurrence of To; the sub-route tracked is the run
\* of stops from that From to that To in route order, so it has at least two
\* stops, starts at From and ends at To; the tracked routes keep the order of
\* the table, and From = To matches no route.
C3_DirectionFilter ==
    (fn.pc = "matched" /\ fn.from # "" /\ fn.to # "") =>
        LET routes == FnRoutes(fn.stops)
            passes(r) == \E i \in FirstAt(Names(routes[r].stops), fn.from),
                            j \in FirstAt(Names(routes[r].stops), fn.to) : i < j
            row(bus) == {k \in 1..Len(fn.matched) : fn.matched[k].busName = bus}
        IN /\ \A r \in 1..Len(routes) :
                /\ Cardinality(row(routes[r].busName)) = (IF passes(r) THEN 1 ELSE 0)
                /\ \A k \in row(routes[r].busName) :
                      LET sub == fn.matched[k].subStops
                      IN /\ \E i \in FirstAt(Names(routes[r].stops), fn.from),
                               j \in FirstAt(Names(routes[r].stops), fn.to) :
                               sub = SubSeq(routes[r].stops, i, j)
                         /\ Len(sub) >= 2
                         /\ sub[1].name = fn.from
                         /\ sub[Len(sub)].name = fn.to
           /\ \A k \in 1..Len(fn.matched) :
                 \E r \in 1..Len(routes) : fn.matched[k].busName = routes[r].busName
           /\ (Len(fn.matched) = 2 => fn.matched[1].busName = routes[1].busName)
           /\ (fn.from = fn.to => fn.matched = <<>>)

\* a route in which To occurs twice is tracked up to the first To, and the route
\* back is not tracked
C3_Witness ==
    /\ fn.pc = "matched"
    /\ Len(fn.stops) = 3
    /\ fn.stops[1].name = fn.from
    /\ fn.stops[2].name = fn.to
    /\ fn.stops[3].name = fn.to
    /\ Len(fn.matched) = 1
    /\ Len(fn.matched[1].subStops) = 2

\* C4: straight-line fallback between stops.  For every segment i whose request
\* failed, the returned path holds the coordinates of stop i immediately
\* followed by those of stop i+1, whatever the other segments' outcomes were
\* (stated for lists of distinct stops).
C4_StraightLineFallback ==
    (/\ fn.pc = "returned"
     /\ Len(fn.stops) >= 2
     /\ \A i, j \in 1..Len(fn.stops) : fn.stops[i] = fn.stops[j] => i = j) =>
        \A i \in fn.failed :
            \E j \in 1..(Len(fn.result) - 1) :
                /\ fn.result[j] = fn.stops[i].coords
                /\ fn.result[j + 1] = fn.stops[i + 1].coords

\* C5: total fallback.  When the request fails for every segment, the returned
\* path is exactly the stops' coordinates, once each, in stop order.
C5_TotalFallback ==
    (fn.pc = "returned" /\ fn.failed = 1..(Len(fn.stops) - 1)) =>
        /\ Len(fn.result) = Len(fn.stops)
        /\ \A i \in 1..Len(fn.stops) : fn.result[i] = fn.stops[i].coords

\* three stops, both requests failed
C5_Witness ==
    /\ fn.pc = "returned"
    /\ Len(fn.stops) = 3
    /\ fn.failed = {1, 2}

\* C6: marker traversal and termination.  An animation that is not cancelled
\* has placed its marker on the first idx coordinates of its path, each once and
\* in path order, one more with each step, and the marker is on the last of
\* them; once no step of it is pending it has placed the whole path and the
\* marker is on the last coordinate.
C6_MarkerTraversal ==
    \A k \in DOMAIN anims :
        LET a == anims[k]
        IN /\ a.idx \in 1..Len(a.coords)
           /\ a.placed = SubSeq(a.coords, 1, a.idx)
           /\ a.latlng = a.coords[a.idx]
           /\ \A t \in Pending(a) : t.n = a.idx
           /\ Cardinality(Pending(a)) <= 1
           /\ Pending(a) = {} =>
                 /\ a.placed = a.coords
                 /\ a.latlng = a.coords[Len(a.coords)]

\* an animation over a path of at least three coordinates has ended
C6_Witness ==
    \E k \in DOMAIN anims :
        /\ Pending(anims[k]) = {}
        /\ Len(anims[k].coords) >= 3
        /\ anims[k].placed = anims[k].coords

\* the closure k as it was before this step: as recorded, or as animateAlongRoad
\* sets it up when the step is the first one
BeforeStep(k) ==
    IF k \in DOMAIN anims THEN anims[k]
    ELSE [anims'[k] EXCEPT !.idx = 0, !.nextStopIndex = 1]

\* this step ran step() of the closure k
Stepped(k) ==
    /\ k \in DOMAIN anims'
    /\ anims'[k].idx = BeforeStep(k).idx + 1

\* the step of closure k placed the marker closer than the threshold to the
\* next unvisited stop
NearNext(k) ==
    LET b == BeforeStep(k)
        p == b.coords[b.idx + 1]
    IN /\ b.nextStopIndex < Len(b.stops)
       /\ distanceMeters(p[1], p[2], b.stops[b.nextStopIndex + 1].coords[1],
                         b.stops[b.nextStopIndex + 1].coords[2]) < ARRIVAL_THRESHOLD_M

\* pill i of bus idName shows Arrived in the wrapper wrap
ShowsArrived(wrap, idName, i) ==
    \E c \in 1..Len(wrap) :
        /\ wrap[c].idName = idName
        /\ i < Len(wrap[c].pills)
        /\ wrap[c].pills[i + 1].eta.text = "Arrived"

\* C7: arrival detection and alert.  Whenever a step places the marker closer
\* than ARRIVAL_THRESHOLD_M to the next unvisited stop, that stop is marked
\* Arrived and the alert is fired for it; a pill with index >= 1 turns to
\* Arrived only at such a step; and no animation fires two alerts for one stop.
C7_ArrivalAlert ==
    [][ /\ \A k \in DOMAIN anims' :
              (Stepped(k) /\ NearNext(k)) =>
                  LET n == BeforeStep(k).nextStopIndex
                  IN /\ anims'[k].nextStopIndex = n + 1
                     /\ ShowsArrived(timelineWrap', anims'[k].idName, n)
                     /\ \E j \in 1..Len(anims'[k].alerts) : anims'[k].alerts[j].stop = n
        /\ \A b \in BusIds : \A i \in 1..4 :
              (ShowsArrived(timelineWrap', b, i) /\ ~ShowsArrived(timelineWrap, b, i)) =>
                  \E k \in DOMAIN anims' :
                      /\ anims'[k].idName = b
                      /\ Stepped(k) /\ NearNext(k)
                      /\ BeforeStep(k).nextStopIndex = i
        /\ \A k \in DOMAIN anims' :
              \A i, j \in 1..Len(anims'[k].alerts) :
                  anims'[k].alerts[i].stop = anims'[k].alerts[j].stop => i = j
      ]_vars

\* C8: one timeline per bus.  The wrapper holds at most one container per bus
\* and activeTimelines holds exactly the ids of the containers in it; and a step
\* that is no Track click (a createTimeline for a bus that has a timeline among
\* them) leaves every container in place with its title and its stops.
C8_Inv ==
    /\ \A i, j \in 1..Len(timelineWrap) :
          timelineWrap[i].idName = timelineWrap[j].idName => i = j
    /\ activeTimelines = {c.idName : c \in Containers}

C8_Keep ==
    nclicks' = nclicks =>
        /\ Len(timelineWrap') >= Len(timelineWrap)
        /\ \A i \in 1..Len(timelineWrap) :
              /\ timelineWrap'[i].idName = timelineWrap[i].idName
              /\ timelineWrap'[i].title = timelineWrap[i].title
              /\ timelineWrap'[i].inv = timelineWrap[i].inv
              /\ Len(timelineWrap'[i].pills) = Len(timelineWrap[i].pills)
              /\ \A p \in 1..Len(timelineWrap[i].pills) :
                    timelineWrap'[i].pills[p].name = timelineWrap[i].pills[p].name

C8_OneTimelinePerBus == [](C8_Inv) /\ [][C8_Keep]_vars

\* an invocation went on to its second route and called createTimeline for a
\* bus whose timeline another invocation had created
C8_Witness ==
    \E id \in DOMAIN invs :
        /\ invs[id].k >= 2
        /\ \E c \in Containers :
              /\ c.idName = safeId(invs[id].matched[invs[id].k].busName)
              /\ c.inv # id

AllStopNames ==
    UNION {{ROUTES[r].stops[i].name : i \in 1..Len(ROUTES[r].stops)} : r \in 1..Len(ROUTES)}

\* the options are the placeholder followed by every stop name once, sorted
WellPopulated(options) ==
    /\ Len(options) = 1 + Cardinality(AllStopNames)
    /\ options[1] = Placeholder
    /\ {options[i].value : i \in 2..Len(options)} = AllStopNames
    /\ \A i \in 2..Len(options) : options[i].text = options[i].value
    /\ \A i \in 2..(Len(options) - 1) : StringLess(options[i].value, options[i + 1].value)

\* C9: dropdown population.  After populateUI, called once or again, the From
\* list and the To list are each the placeholder followed by every distinct
\* stop name of the routes, once each, in sorted order, and the route list has
\* one pill for each route.
C9_DropdownPopulation ==
    populates >= 1 =>
        /\ WellPopulated(fromOptions)
        /\ WellPopulated(toOptions)
        /\ Len(routesList) = Len(ROUTES)
        /\ \A r \in 1..Len(ROUTES) : routesList[r].busName = ROUTES[r].busName

\* populateUI was called again on selects that shipped with options
C9_Witness ==
    /\ populates = 2
    /\ nclicks = 0
    /\ Len(fromOptions) = 9

\* C10: pills exist before animation.  Whenever animateAlongRoad starts for a
\* bus, the pills of that invocation's sub-route for the bus are in the page:
\* pill i is the pill of stop i of the stops handed to the animation.
C10_PillsBeforeAnimation ==
    \A k \in DOMAIN anims :
        /\ anims[k].startPills.idName = anims[k].idName
        /\ [i \in 1..Len(anims[k].startPills.pills) |-> anims[k].startPills.pills[i].name]
              = Names(anims[k].stops)

\* the pending step timers of bus b
TimersOf(b) == {t \in timers : t.idName = b}

\* C11: no stray animation timers.  In every reachable state each bus has at
\* most one pending step timer and every pending step timer is the one recorded
\* in activeAnimations for its bus; so a Track click that clears the visuals
\* leaves no step pending, and a start of animateAlongRoad for a bus leaves that
\* bus with the new animation's step as its only pending one.
C11_Inv ==
    /\ \A b \in BusIds : Cardinality(TimersOf(b)) <= 1
    /\ \A t \in timers :
          /\ t.idName \in DOMAIN activeAnimations
          /\ activeAnimations[t.idName] = t

C11_Stops ==
    /\ (nclicks' # nclicks /\ tracked' # tracked) => timers' = {}
    /\ \A k \in DOMAIN anims' :
          (k \notin DOMAIN anims) =>
              {t \in timers' : t.idName = anims'[k].idName}
                  = {TimerId(anims'[k].inv, anims'[k].idName, 1)}

C11_NoStrayTimers == [](C11_Inv) /\ [][C11_Stops]_vars

\* animateAlongRoad was started again for a bus whose animation was running:
\* the marker of invocation 1 is on the map, its closure was stopped with a step
\* pending, and the only pending step of the bus is invocation 2's
C11_Witness ==
    \E b \in BusIds :
        /\ Layer("marker", 1, b) \in mapLayers
        /\ <<1, b>> \notin DOMAIN anims
        /\ \E t \in timers : t.inv = 2 /\ t.idName = b

\* C12: fetchRoadForStops always resolves and never rejects.  A call that was
\* started returns, whatever the outcome of each segment's request; what it
\* returns for a non-empty stop list is a non-empty path, for an empty list the
\* empty path, and for a single stop that stop's coordinates.
C12_Returned ==
    fn.pc = "returned" =>
        /\ Len(fn.stops) >= 1 => Len(fn.result) >= 1
        /\ Len(fn.stops) = 0 => fn.result = <<>>
        /\ Len(fn.stops) = 1 => fn.result = <<fn.stops[1].coords>>

C12_FetchAlwaysResolves ==
    /\ [](C12_Returned)
    /\ (fn.pc = "fetch") ~> (fn.pc = "returned")

\* a call with three stops has returned after its first request was answered
\* and its second one failed
C12_Witness ==
    /\ fn.pc = "returned"
    /\ Len(fn.stops) = 3
    /\ fn.failed = {2}
    /\ Len(fn.result) >= 1

\* C13: a rejected Track click changes nothing.  A click that ends in an alert
\* (From or To empty, or no route matches the direction) leaves the polylines,
\* markers and timelines in the page, the four registries, the pending step
\* timers, the map view and the invocations in flight as they were.
C13_RejectedClickChangesNothing ==
    [][ (nclicks' # nclicks /\ alertMsg' # "") =>
            UNCHANGED <<mapView, mapLayers, activePolylines, activeMarkers,
                        activeTimelines, activeAnimations, timelineWrap, timers,
                        invs>>
      ]_vars

\* a click was rejected because no route matches, while an animation was
\* running and another route's fetch was in flight
C13_Witness ==
    /\ alertMsg = "No buses found for that route inside Amritsar (demo). Try different pair."
    /\ timers # {}
    /\ mapLayers # {}
    /\ timelineWrap # <<>>
    /\ invs # <<>>

\* the indices of the stops the run a marked Arrived, in the order it marked
\* them (a mark and its alert are made together)
MarkedBy(a) == [j \in 1..Len(a.alerts) |-> a.alerts[j].stop]

\* C14: stops are marked in route order.  During one animation run the index
\* of the next unvisited stop never decreases and advances by at most one per
\* step; the stops the run has marked Arrived are 0, 1, ..., k in that order, so
\* stop k is marked only after stops 0..k-1 were; and no step of the run turns a
\* pill the run marked Arrived back to an ETA value.
C14_Order ==
    \A k \in DOMAIN anims :
        /\ anims[k].nextStopIndex \in 1..Len(anims[k].stops)
        /\ \A j \in 1..Len(anims[k].alerts) : MarkedBy(anims[k])[j] = j - 1

C14_Step ==
    \A k \in DOMAIN anims' :
        Stepped(k) =>
            /\ anims'[k].nextStopIndex \in
                  {BeforeStep(k).nextStopIndex, BeforeStep(k).nextStopIndex + 1}
            /\ \A j \in 1..Len(BeforeStep(k).alerts) :
                  LET i == BeforeStep(k).alerts[j].stop
                  IN ShowsArrived(timelineWrap, anims'[k].idName, i) =>
                         ShowsArrived(timelineWrap', anims'[k].idName, i)

C14_StopsMarkedInOrder == [](C14_Order) /\ [][C14_Step]_vars

====
